---- MODULE Spec2Model ----
(***************************************************************************)
(* Model of baleen's phrase-structure-tree offset mapping                   *)
(* (lib/baleen/vars.py, parse_pstree).                                      *)
(*                                                                         *)
(* A parse string is a sequence of one-character strings.  The element     *)
(* tree that parse_pstree builds with lxml is a sequence of element        *)
(* records, an element's identity being its position in that sequence.     *)
(* An attribute value is a decimal text (a sequence of digits); an          *)
(* attribute that is not set is the empty option <<>>, a set one is        *)
(* <<text>>.                                                               *)
(***************************************************************************)
EXTENDS Integers, Sequences, FiniteSets, TLC

VARIABLES
    parse,        \* the labeled-bracket string, a sequence of characters
    tokenSpans,   \* the (start, end) offsets of the tokens, as integers
    tokens_elem,  \* the <tokens> element: the same offsets as XML texts
    matches,      \* the symbols symbol_re.finditer(parse) yields
    pos,          \* the index in matches of the symbol the loop is at
    elems,        \* the elements created so far, in creation order
    parent,       \* the cursor: an index in elems, or None
    token_count,
    pc,           \* "scan", "done" (returned) or "error" (raised)
    err,          \* the exception raised
    order,        \* the elements enumerate(parent.iter()) numbered, in order
    result        \* the returned dict, a function on 0..N-1

\* add_offsets (lib/baleen/vars.py)
VARIABLES
    batch,        \* the variable files of vars_dir as they were found, each
                  \* with the SCNLP document its records name
    resume,       \* the parameter resume
    fi,           \* the index in batch of the file the loop is at
    disk,         \* the records each variable file holds now
    rewritten,    \* the indices of the files json.dump has rewritten
    opc,          \* "run", "done" (returned) or "error" (raised)
    oerr          \* the exception add_offsets raised

\* prune_tentails (lib/baleen/n4j/postproc.py)
VARIABLES
    graph,          \* the VariableType nodes of the database, their
                    \* TENTAILS_VAR relationships and their HAS_VAR references
    graph0,         \* the graph prune_tentails was called on
    gpc,            \* "dedup", "deadend", "collapse", "done" or "error"
    deletion_count, \* deletion_count of the loop of prune_tentails
    limit,          \* the LIMIT of query2 and query3
    pass0           \* the graph as the current pass of the loop found it

\* run_commands (lib/baleen/arghconfig.py)
VARIABLES
    functions,    \* the parameter functions: the steps of the pipeline
    step_i,       \* i of the loop, counted from 1
    started,      \* the commands subprocess.run has started, in order
    returncodes,  \* cp.returncode of the commands that have exited, in order
    rpc           \* "loop", "running" (in subprocess.run) or "done"

input == <<parse, tokenSpans, tokens_elem, matches>>

pvars == <<parse, tokenSpans, tokens_elem, matches, pos, elems, parent,
           token_count, pc, err, order, result>>

ovars == <<batch, resume, fi, disk, rewritten, opc, oerr>>

gvars == <<graph, graph0, gpc, deletion_count, limit, pass0>>

rvars == <<functions, step_i, started, returncodes, rpc>>

vars == <<pvars, ovars, gvars, rvars>>

(***************************************************************************)
(* Bounds of the enumerated inputs.                                        *)
(***************************************************************************)
\* longest parse string, counted in pieces of the vocabulary below
MaxPieces == 6
\* longest token sequence; also the number of distinct token spans
MaxTok == 2

(***************************************************************************)
(* The tokenizing regular expression, vars.py:171-182.                     *)
(***************************************************************************)
open_b == "("
close_b == ")"

\* the characters \s matches, of those the inputs are written in
Whitespace == {" "}

\* the three character classes the patterns are built from:
\*   "space"       \s
\*   "node"        [^\s()]     (node_pattern and the head of leaf_pattern)
\*   "nonbracket"  [^()]       (the tail of leaf_pattern)
InClass(c, cls) ==
    CASE cls = "space" -> c \in Whitespace
      [] cls = "node" -> c \notin Whitespace /\ c \notin {open_b, close_b}
      [] cls = "nonbracket" -> c \notin {open_b, close_b}

\* a greedy run of one class starting at i: the first index it does not cover
RECURSIVE RunEnd(_, _, _)
RunEnd(s, i, cls) ==
    IF i <= Len(s) /\ InClass(s[i], cls) THEN RunEnd(s, i + 1, cls) ELSE i

\* node_pattern = '[^\s()]+' made optional: open_pattern \s* (node_pattern)?
OpenMatchEnd(s, i) == RunEnd(s, RunEnd(s, i + 1, "space"), "node")

\* leaf_pattern = '[^\s()]+[^()]*'
LeafMatchEnd(s, i) == RunEnd(s, RunEnd(s, i, "node"), "nonbracket")

\* symbol_re matched at position i: the index after the match, 0 for no match
MatchEnd(s, i) ==
    IF s[i] = open_b THEN OpenMatchEnd(s, i)
    ELSE IF s[i] = close_b THEN i + 1
    ELSE IF InClass(s[i], "node") THEN LeafMatchEnd(s, i)
    ELSE 0

\* symbol_re.finditer(parse): the non-overlapping matches from i on, in order
RECURSIVE FindIter(_, _)
FindIter(s, i) ==
    IF i > Len(s) THEN <<>>
    ELSE LET e == MatchEnd(s, i)
         IN  IF e = 0 THEN FindIter(s, i + 1)
             ELSE <<SubSeq(s, i, e - 1)>> \o FindIter(s, e)

\* the branch of the loop body a symbol takes, vars.py:192,198,204
SymbolKind(symbol) ==
    IF symbol[1] = open_b THEN "open"
    ELSE IF symbol = <<close_b>> THEN "close"
    ELSE "leaf"

(***************************************************************************)
(* Decimal texts: the offsets in the tokens' XML and in the attributes.    *)
(***************************************************************************)
\* the text of a CharacterOffsetBegin / CharacterOffsetEnd element
RECURSIVE Str(_)
Str(n) == IF n < 10 THEN <<n>> ELSE Str(n \div 10) \o <<n % 10>>

\* int(text) of a decimal text
RECURSIVE IntOf(_)
IntOf(text) ==
    IF Len(text) = 1 THEN text[1]
    ELSE 10 * IntOf(SubSeq(text, 1, Len(text) - 1)) + text[Len(text)]

\* a <token> element: token[2] is CharacterOffsetBegin, token[3] is
\* CharacterOffsetEnd
TokenElem(span) == [begin |-> Str(span[1]), end |-> Str(span[2])]

(***************************************************************************)
(* The element tree.                                                       *)
(***************************************************************************)
None == 0

\* etree.Element(tag) and etree.Element('node', start=start, end=end)
Element(tag, up, start, end) ==
    [tag |-> tag, up |-> up, kids |-> <<>>, start |-> start, end |-> end]

\* parent.append(child), child being the element created next
AppendChild(es, p, child) ==
    LET id == Len(es) + 1
    IN  Append([es EXCEPT ![p].kids = Append(@, id)],
               [child EXCEPT !.up = p])

\* elem.iter(): the element and its descendants in document order
RECURSIVE Iter(_, _)
RECURSIVE IterAll(_, _)

\* a faulty iter(): the element and its children, no deeper descendants
IterChildren(es, e) == <<e>> \o es[e].kids

\* a faulty iter(): the descendants before the element
IterPostOrder(es, e) == IterAll(es, es[e].kids) \o <<e>>

Iter(es, e) == <<e>> \o IterAll(es, es[e].kids)
IterAll(es, ks) ==
    IF ks = <<>> THEN <<>> ELSE Iter(es, Head(ks)) \o IterAll(es, Tail(ks))

(***************************************************************************)
(* The inputs.                                                             *)
(***************************************************************************)
\* the pieces the enumerated parse strings are written with: a bare open
\* bracket, an open bracket with its label, a close bracket, a word
Pieces == << <<"(">>, <<"(", "X", " ">>, <<")">>, <<"w", " ">> >>

RECURSIVE Concat(_)
Concat(ss) == IF ss = <<>> THEN <<>> ELSE Head(ss) \o Concat(Tail(ss))

ParseStrings ==
    { Concat([k \in DOMAIN f |-> Pieces[f[k]]]) :
        f \in UNION { [1..n -> 1..Len(Pieces)] : n \in 0..MaxPieces } }

\* the k-th token span of a text whose words are three characters long
Span(k) == <<4 * (k - 1), 4 * (k - 1) + 3>>

\* the token sequences: the first n spans, in any order
TokenSeqs ==
    UNION { { ts \in [1..n -> {Span(k) : k \in 1..n}] :
                \A i, j \in 1..n : i # j => ts[i] # ts[j] } : n \in 0..MaxTok }

\* "(S (NP (DT the) (NN cat)) (VP (VBD sat)))"
ScenarioParse ==
    << "(", "S", " ", "(", "N", "P", " ", "(", "D", "T", " ", "t", "h", "e",
       ")", " ", "(", "N", "N", " ", "c", "a", "t", ")", ")", " ", "(", "V",
       "P", " ", "(", "V", "B", "D", " ", "s", "a", "t", ")", ")", ")" >>

ScenarioSpans == << <<0, 3>>, <<4, 7>>, <<8, 11>> >>

\* "(S (NP (DT the))"
UnbalancedParse ==
    << "(", "S", " ", "(", "N", "P", " ", "(", "D", "T", " ", "t", "h", "e",
       ")", ")" >>

Inputs ==
    (ParseStrings \X TokenSeqs)
        \cup { <<ScenarioParse, ScenarioSpans>>,
               <<UnbalancedParse, <<ScenarioSpans[1]>> >> }

(***************************************************************************)
(* parse_pstree(parse, tokens_elem), vars.py:163-218.                      *)
(***************************************************************************)
\* add_offsets is not running
OffsetsIdle ==
    /\ batch = <<>>
    /\ resume = FALSE
    /\ fi = 1
    /\ disk = <<>>
    /\ rewritten = {}
    /\ opc = "idle"
    /\ oerr = "none"

\* parse_pstree is not running
ParseIdle ==
    /\ parse = <<>>
    /\ tokenSpans = <<>>
    /\ tokens_elem = <<>>
    /\ matches = <<>>
    /\ pos = 1
    /\ elems = <<>>
    /\ parent = 0
    /\ token_count = 0
    /\ pc = "idle"
    /\ err = "none"
    /\ order = <<>>
    /\ result = <<>>

\* prune_tentails is not running
PruneIdle ==
    /\ graph = <<>>
    /\ graph0 = <<>>
    /\ gpc = "idle"
    /\ deletion_count = 0
    /\ limit = 0
    /\ pass0 = <<>>

\* run_commands is not running
RunIdle ==
    /\ functions = <<>>
    /\ step_i = 1
    /\ started = <<>>
    /\ returncodes = <<>>
    /\ rpc = "idle"

Init ==
    /\ OffsetsIdle
    /\ PruneIdle
    /\ RunIdle
    /\ \E inp \in Inputs :
          /\ parse = inp[1]
          /\ tokenSpans = inp[2]
          /\ tokens_elem = [k \in 1..Len(inp[2]) |-> TokenElem(inp[2][k])]
          /\ matches = FindIter(inp[1], 1)
    /\ elems = <<Element("__ROOT__", None, <<>>, <<>>)>>
    /\ parent = 1
    /\ token_count = 0
    /\ pos = 1
    /\ pc = "scan"
    /\ err = "none"
    /\ order = <<>>
    /\ result = <<>>

Scanning(kind) ==
    /\ pc = "scan"
    /\ pos <= Len(matches)
    /\ SymbolKind(matches[pos]) = kind

Raise(e) ==
    /\ pc' = "error"
    /\ err' = e
    /\ UNCHANGED pos

\* a faulty getparent(): the root is its own parent
GetParentOrSelf(es, e) == IF es[e].up = None THEN e ELSE es[e].up

\* elem.getparent()
GetParent(es, e) == es[e].up

\* a faulty set(): None is accepted as a value
SetAcceptsNone(value) == FALSE

\* elem.set(key, value) raises TypeError for a value that is None
SetRaises(value) == value = <<>>

\* a faulty subscript: token_count is not advanced, every leaf reads token 0
TokenIndexFirst(tokens, count) == IF count < Len(tokens) THEN 1 ELSE 0

\* a faulty subscript: past the last token it wraps around to the first
TokenIndexWrap(tokens, count) ==
    IF Len(tokens) = 0 THEN 0 ELSE (count % Len(tokens)) + 1

\* a faulty subscript: counted from the end of tokens_elem
TokenIndexFromEnd(tokens, count) ==
    IF count < Len(tokens) THEN Len(tokens) - count ELSE 0

\* the index in tokens_elem (counted from 1) that tokens_elem[token_count]
\* reads, 0 when the subscript is out of range
TokenIndex(tokens, count) == IF count < Len(tokens) THEN count + 1 ELSE 0

\* a faulty parent[0]: the last child
FirstChildIsLast(kids) == kids[Len(kids)]

\* the child whose 'start' a closing bracket copies: parent[0]
FirstChild(kids) == kids[1]

\* the child whose 'end' a closing bracket copies: parent[-1]
LastChild(kids) == kids[Len(kids)]

\* Beginning of a tree/subtree, vars.py:192-196
OpenNode ==
    /\ Scanning("open")
    /\ elems' = AppendChild(elems, parent, Element("node", None, <<>>, <<>>))
    /\ parent' = Len(elems) + 1
    /\ pos' = pos + 1
    /\ UNCHANGED <<input, token_count, pc, err, order, result>>
    /\ UNCHANGED <<ovars, gvars, rvars>>

\* End of a tree/subtree, vars.py:198-202
CloseNode ==
    /\ Scanning("close")
    /\ LET p == GetParent(elems, parent)
       IN  /\ parent' = p
           /\ IF p = None
              THEN \* None.set(...)
                   Raise("AttributeError") /\ UNCHANGED elems
              ELSE IF elems[p].kids = <<>>
              THEN \* parent[0] of an element without children
                   Raise("IndexError") /\ UNCHANGED elems
              ELSE LET first == elems[FirstChild(elems[p].kids)].start
                       last == elems[LastChild(elems[p].kids)].end
                   IN  IF SetRaises(first)
                       THEN \* parent.set('start', None)
                            Raise("TypeError") /\ UNCHANGED elems
                       ELSE IF SetRaises(last)
                       THEN \* parent.set('end', None), 'start' being set
                            /\ Raise("TypeError")
                            /\ elems' = [elems EXCEPT ![p].start = first]
                       ELSE /\ elems' = [elems EXCEPT ![p].start = first,
                                                      ![p].end = last]
                            /\ pos' = pos + 1
                            /\ UNCHANGED <<pc, err>>
    /\ UNCHANGED <<input, token_count, order, result>>
    /\ UNCHANGED <<ovars, gvars, rvars>>

\* Leaf node, vars.py:204-214
LeafNode ==
    /\ Scanning("leaf")
    /\ LET k == TokenIndex(tokens_elem, token_count)
       IN  IF k = 0
           THEN \* tokens_elem[token_count] raises
                /\ Raise("IndexError")
                /\ UNCHANGED <<elems, token_count>>
           ELSE LET token == tokens_elem[k]
                    start == <<token.begin>>
                    end == <<token.end>>
                IN  /\ token_count' = token_count + 1
                    /\ elems' = AppendChild(
                           [elems EXCEPT ![parent].start = start,
                                         ![parent].end = end],
                           parent, Element("node", None, start, end))
                    /\ pos' = pos + 1
                    /\ UNCHANGED <<pc, err>>
    /\ UNCHANGED <<input, parent, order, result>>
    /\ UNCHANGED <<ovars, gvars, rvars>>

\* Finally map node numbers to character offsets, vars.py:217-218
Return ==
    /\ pc = "scan"
    /\ pos > Len(matches)
    /\ LET it == Iter(elems, parent)
       IN  IF \E n \in 1..Len(it) :
                  elems[it[n]].start = <<>> \/ elems[it[n]].end = <<>>
           THEN \* int(None)
                Raise("TypeError") /\ UNCHANGED <<order, result>>
           ELSE /\ order' = it
                /\ result' = [n \in 0..(Len(it) - 1) |->
                                 <<IntOf(elems[it[n + 1]].start[1]),
                                   IntOf(elems[it[n + 1]].end[1])>>]
                /\ pc' = "done"
                /\ UNCHANGED <<err, pos>>
    /\ UNCHANGED <<input, elems, parent, token_count>>
    /\ UNCHANGED <<ovars, gvars, rvars>>

Next == OpenNode \/ CloseNode \/ LeafNode \/ Return

Spec == Init /\ [][Next]_vars

(***************************************************************************)
(* parse_pstree as a function of its arguments: the same loop, run to its  *)
(* end on a record of the local variables.  add_offsets calls it once per  *)
(* sentence.                                                               *)
(***************************************************************************)
ScanStart ==
    [elems |-> <<Element("__ROOT__", None, <<>>, <<>>)>>, parent |-> 1,
     token_count |-> 0, err |-> "none"]

\* vars.py:192-196
ScanOpen(st) ==
    [st EXCEPT !.elems = AppendChild(st.elems, st.parent,
                                     Element("node", None, <<>>, <<>>)),
               !.parent = Len(st.elems) + 1]

\* vars.py:198-202
ScanClose(st) ==
    LET p == GetParent(st.elems, st.parent)
    IN  IF p = None THEN [st EXCEPT !.parent = p, !.err = "AttributeError"]
        ELSE IF st.elems[p].kids = <<>>
        THEN [st EXCEPT !.parent = p, !.err = "IndexError"]
        ELSE LET first == st.elems[FirstChild(st.elems[p].kids)].start
                 last == st.elems[LastChild(st.elems[p].kids)].end
             IN  IF SetRaises(first) \/ SetRaises(last)
                 THEN [st EXCEPT !.parent = p, !.err = "TypeError"]
                 ELSE [st EXCEPT !.parent = p,
                                 !.elems = [st.elems EXCEPT ![p].start = first,
                                                            ![p].end = last]]

\* vars.py:204-214
ScanLeaf(st, tokens) ==
    LET k == TokenIndex(tokens, st.token_count)
    IN  IF k = 0 THEN [st EXCEPT !.err = "IndexError"]
        ELSE LET start == <<tokens[k].begin>>
                 end == <<tokens[k].end>>
             IN  [st EXCEPT
                    !.token_count = st.token_count + 1,
                    !.elems = AppendChild(
                        [st.elems EXCEPT ![st.parent].start = start,
                                         ![st.parent].end = end],
                        st.parent, Element("node", None, start, end))]

\* the loop over the symbols from the i-th on, vars.py:189-214
RECURSIVE Scan(_, _, _, _)
Scan(st, ms, i, tokens) ==
    IF i > Len(ms) \/ st.err # "none" THEN st
    ELSE LET kind == SymbolKind(ms[i])
             nxt == IF kind = "open" THEN ScanOpen(st)
                    ELSE IF kind = "close" THEN ScanClose(st)
                    ELSE ScanLeaf(st, tokens)
         IN  Scan(nxt, ms, i + 1, tokens)

\* the outcome of parse_pstree(p, tokens): the exception raised, or "none"
\* and the returned dict, vars.py:163-218
ParsePstree(p, tokens) ==
    LET st == Scan(ScanStart, FindIter(p, 1), 1, tokens)
        it == Iter(st.elems, st.parent)
    IN  IF st.err # "none" THEN [err |-> st.err, map |-> <<>>]
        ELSE IF \E n \in 1..Len(it) :
                    st.elems[it[n]].start = <<>> \/ st.elems[it[n]].end = <<>>
        THEN [err |-> "TypeError", map |-> <<>>]
        ELSE [err |-> "none",
              map |-> [n \in 0..(Len(it) - 1) |->
                          <<IntOf(st.elems[it[n + 1]].start[1]),
                            IntOf(st.elems[it[n + 1]].end[1])>>]]

(***************************************************************************)
(* The parse string as the properties read it: the symbols by position,    *)
(* the bracket structure, and the element each symbol creates.             *)
(***************************************************************************)
Syms == 1..Len(matches)
Kind(i) == SymbolKind(matches[i])
Opens == {i \in Syms : Kind(i) = "open"}
Closes == {i \in Syms : Kind(i) = "close"}
Leaves == {i \in Syms : Kind(i) = "leaf"}

\* the brackets of the parse string itself, character by character
OpenChars == {c \in 1..Len(parse) : parse[c] = open_b}
CloseChars == {c \in 1..Len(parse) : parse[c] = close_b}

\* the bracket depth after the first c characters of s, -1 from the first
\* close bracket on that has no open bracket
RECURSIVE CharDepth(_, _)
CharDepth(s, c) ==
    IF c = 0 THEN 0
    ELSE LET d == CharDepth(s, c - 1)
         IN  IF d < 0 THEN -1
             ELSE IF s[c] = open_b THEN d + 1
             ELSE IF s[c] = close_b THEN d - 1
             ELSE d

Balanced == CharDepth(parse, Len(parse)) = 0

\* the nesting depth after symbol i
Depth(i) ==
    Cardinality({j \in Opens : j <= i}) - Cardinality({j \in Closes : j <= i})

SetMin(S) == CHOOSE x \in S : \A y \in S : x <= y
SetMax(S) == CHOOSE x \in S : \A y \in S : x >= y

\* the close bracket of the node that symbol i opens, 0 when it has none
MatchingClose(i) ==
    LET c == {j \in Closes : j > i /\ Depth(j) = Depth(i) - 1}
    IN  IF c = {} THEN 0 ELSE SetMin(c)

\* the leaves under the node that symbol i opens
LeavesOf(i) ==
    {j \in Leaves : i < j /\ (MatchingClose(i) = 0 \/ j < MatchingClose(i))}

\* symbol j is the LeafNo(j)-th leaf of the scan
LeafNo(j) == Cardinality({l \in Leaves : l <= j})

\* the element symbol i creates: __ROOT__ is element 1, and every open
\* bracket and every leaf before i has created one
ElemAt(i) == 1 + Cardinality({j \in 1..i : Kind(j) # "close"})

Returned(e) == \E n \in 1..Len(order) : order[n] = e
IndexOf(e) == CHOOSE n \in DOMAIN result : order[n + 1] = e

\* the node that symbol i opens is closed with no child
EmptyNode(i) ==
    /\ i < Len(matches)
    /\ Kind(i) = "open"
    /\ Kind(i + 1) = "close"

\* each leaf is the only child of a bracketed node
SoleLeaves == \A j \in Leaves : j - 1 \in Opens /\ j + 1 \in Closes

RECURSIVE IsDescendant(_, _)
IsDescendant(d, a) ==
    /\ elems[d].up # None
    /\ (elems[d].up = a \/ IsDescendant(elems[d].up, a))

(***************************************************************************)
(* C1.  For a balanced parse string in which each leaf is the only child   *)
(* of its bracketed node (and no node is empty, with a token for every     *)
(* leaf), parse_pstree returns, and maps each bracketed node to (start of  *)
(* the token of its leftmost leaf, end of the token of its rightmost       *)
(* leaf).  For "(S (NP (DT the) (NN cat)) (VP (VBD sat)))" with the spans  *)
(* (0,3), (4,7), (8,11): S (0,11), NP (0,7), DT (0,3), NN (4,7),           *)
(* VP (8,11), VBD (8,11).                                                  *)
(***************************************************************************)
LeafSpan(i) ==
    <<tokenSpans[LeafNo(SetMin(LeavesOf(i)))][1],
      tokenSpans[LeafNo(SetMax(LeavesOf(i)))][2]>>

SoleLeafCase ==
    /\ Opens # {}
    /\ SoleLeaves
    /\ \A i \in Syms : ~EmptyNode(i)
    /\ Cardinality(Leaves) <= Len(tokenSpans)
    /\ Balanced

\* the span returned for the node with the given label
SpanOfLabel(label) ==
    result[IndexOf(ElemAt(CHOOSE i \in Opens : matches[i] = <<open_b>> \o label))]

NodeSpansFromLeaves ==
    /\ (pc # "scan" /\ SoleLeafCase) =>
          /\ pc = "done"
          /\ \A i \in Opens :
                /\ Returned(ElemAt(i))
                /\ result[IndexOf(ElemAt(i))] = LeafSpan(i)
    /\ (pc = "done" /\ parse = ScenarioParse /\ tokenSpans = ScenarioSpans) =>
          /\ SpanOfLabel(<<"S">>) = <<0, 11>>
          /\ SpanOfLabel(<<"N", "P">>) = <<0, 7>>
          /\ SpanOfLabel(<<"D", "T">>) = <<0, 3>>
          /\ SpanOfLabel(<<"N", "N">>) = <<4, 7>>
          /\ SpanOfLabel(<<"V", "P">>) = <<8, 11>>
          /\ SpanOfLabel(<<"V", "B", "D">>) = <<8, 11>>

ScenarioReturned ==
    pc = "done" /\ parse = ScenarioParse /\ tokenSpans = ScenarioSpans

(***************************************************************************)
(* C2.  In the returned mapping every non-terminal node's start is the     *)
(* start of its first child and its end is the end of its last child,      *)
(* also when its children mix bracketed nodes and leaves.                  *)
(***************************************************************************)
NonTerminalSpansChildren ==
    pc = "done" =>
        \A n \in DOMAIN result :
            LET e == elems[order[n + 1]]
            IN  (e.tag = "node" /\ e.kids # <<>>) =>
                    /\ result[n][1] = result[IndexOf(e.kids[1])][1]
                    /\ result[n][2] = result[IndexOf(e.kids[Len(e.kids)])][2]

(***************************************************************************)
(* C3.  For a balanced parse tree without empty nodes whose token spans    *)
(* are non-overlapping and increasing, the span of each node contains the  *)
(* span of each of its descendants.                                        *)
(***************************************************************************)
TokensIncreasing ==
    \A k \in 1..Len(tokenSpans) :
        /\ tokenSpans[k][1] <= tokenSpans[k][2]
        /\ k > 1 => tokenSpans[k - 1][2] <= tokenSpans[k][1]

\* one bracketed node encloses the whole string
SingleTree == 1 \in Opens /\ \A i \in Syms : i < Len(matches) => Depth(i) > 0

SpanContainsDescendants ==
    (pc = "done" /\ Balanced /\ SingleTree /\ TokensIncreasing) =>
        \A n, m \in DOMAIN result :
            (elems[order[n + 1]].tag = "node"
                 /\ IsDescendant(order[m + 1], order[n + 1])) =>
                /\ result[n][1] <= result[m][1]
                /\ result[m][2] <= result[n][2]

(***************************************************************************)
(* C4.  As claimed: the number of indices in the returned mapping equals   *)
(* the number of '(' characters in the parse string.                       *)
(***************************************************************************)
IndexCountIsOpenBrackets ==
    pc = "done" => Cardinality(DOMAIN result) = Cardinality(OpenChars)

\* the open brackets that no close bracket matches
Unclosed == {i \in Opens : MatchingClose(i) = 0}

(***************************************************************************)
(* C4, amended.  Each '(' opens exactly one node, and each leaf token      *)
(* contributes an index as well.  When every bracket is closed the number  *)
(* of indices is one (the synthetic __ROOT__) plus the number of '(' plus  *)
(* the number of leaf tokens; when the string ends inside an unclosed      *)
(* bracket it is the number of '(' and leaf tokens from the innermost      *)
(* unclosed '(' on.                                                        *)
(***************************************************************************)
IndexCountIsElements ==
    /\ Cardinality(Opens) = Cardinality(OpenChars)
    /\ pc = "done" =>
          Cardinality(DOMAIN result) =
              IF Balanced
              THEN 1 + Cardinality(OpenChars) + Cardinality(Leaves)
              ELSE Cardinality({j \in Opens \cup Leaves : j >= SetMax(Unclosed)})

LeavesCounted ==
    pc = "done" /\ Balanced /\ Cardinality(OpenChars) >= 2 /\ Leaves # {}

(***************************************************************************)
(* C5.  As claimed: the indices 0..N-1 follow the order of creation and    *)
(* index 0 is the node opened by the first '(' of the parse string.        *)
(***************************************************************************)
CreationOrder ==
    /\ DOMAIN result = 0..(Len(order) - 1)
    /\ \A n \in 1..(Len(order) - 1) : order[n + 1] = order[n] + 1
    /\ order[Len(order)] = Len(elems)
    /\ \A n \in DOMAIN result :
          /\ result[n][1] = IntOf(elems[order[n + 1]].start[1])
          /\ result[n][2] = IntOf(elems[order[n + 1]].end[1])

IndexZeroIsFirstBracket ==
    (pc = "done" /\ Opens # {}) =>
        /\ CreationOrder
        /\ order[1] = ElemAt(SetMin(Opens))

(***************************************************************************)
(* C5, amended.  The indices 0..N-1 are given to the returned elements     *)
(* (bracketed nodes and leaves alike) in the order of their creation.      *)
(* Index 0 is the element the scan ends on: the synthetic __ROOT__ when    *)
(* every bracket is closed, so that the node opened by a leading '(' has   *)
(* index 1; the innermost unclosed node otherwise.                         *)
(***************************************************************************)
IndicesInCreationOrder ==
    pc = "done" =>
        /\ CreationOrder
        /\ IF Balanced
           THEN /\ elems[order[1]].tag = "__ROOT__"
                /\ 1 \in Opens => IndexOf(ElemAt(1)) = 1
           ELSE order[1] = ElemAt(SetMax(Unclosed))

RootIsIndexZero ==
    pc = "done" /\ Balanced /\ 1 \in Opens /\ Cardinality(Opens) >= 2
        /\ Leaves # {}

(***************************************************************************)
(* C6.  The k-th leaf of the scan receives the k-th entry of the token     *)
(* sequence, in whatever order the token sequence lists the spans; so a    *)
(* permutation of the token sequence permutes the spans of the terminal    *)
(* nodes in the same way.                                                  *)
(***************************************************************************)
LeavesTakeTokensInOrder ==
    /\ \A j \in Leaves :
          j < pos =>
              /\ elems[ElemAt(j)].kids = <<>>
              /\ IntOf(elems[ElemAt(j)].start[1]) = tokenSpans[LeafNo(j)][1]
              /\ IntOf(elems[ElemAt(j)].end[1]) = tokenSpans[LeafNo(j)][2]
    /\ pc = "done" =>
          \A j \in Leaves :
              Returned(ElemAt(j)) =>
                  result[IndexOf(ElemAt(j))] = tokenSpans[LeafNo(j)]

PermutedTokensReturned ==
    /\ pc = "done"
    /\ Cardinality(Leaves) >= 2
    /\ tokenSpans[1][1] > tokenSpans[2][1]
    /\ \A j \in Leaves : Returned(ElemAt(j))

(***************************************************************************)
(* C7.  A parse string with more opening than closing brackets makes       *)
(* parse_pstree fail instead of returning a mapping.                       *)
(***************************************************************************)
UnbalancedFails ==
    Cardinality(OpenChars) > Cardinality(CloseChars) => pc # "done"

(***************************************************************************)
(* C8.  A closing bracket with no matching open bracket makes              *)
(* parse_pstree fail at that bracket: the scan never gets past it, no      *)
(* mapping is returned, and the error raised there is the AttributeError   *)
(* of None.set.                                                            *)
(***************************************************************************)
UnmatchedCloses == {j \in Closes : Depth(j) < 0}

UnmatchedCloseRaises ==
    \A j \in Syms :
        (Kind(j) = "close" /\ Depth(j) < 0) =>
            /\ pc # "done"
            /\ result = <<>>
            /\ pos <= j
            /\ (pc = "error" /\ pos = j) => err = "AttributeError"

RaisedAtUnmatchedClose ==
    /\ pc = "error"
    /\ err = "AttributeError"
    /\ pos > 1
    /\ pos \in UnmatchedCloses

(***************************************************************************)
(* C9.  A bracketed node closed with zero children, at any position among  *)
(* its siblings and at any depth, makes parse_pstree fail at its closing   *)
(* bracket with the TypeError of set(..., None); no mapping is returned.   *)
(***************************************************************************)
EmptyNodes == {i \in Opens : EmptyNode(i)}

EmptyNodeRaises ==
    \A i \in Syms :
        EmptyNode(i) =>
            /\ pc # "done"
            /\ result = <<>>
            /\ pos <= i + 1
            /\ (pc = "error" /\ pos = i + 1) => err = "TypeError"

\* raised at an empty node that is nested and is not the first child
RaisedAtEmptyNode ==
    /\ pc = "error"
    /\ err = "TypeError"
    /\ pos - 1 \in EmptyNodes
    /\ Depth(pos) >= 1
    /\ Len(elems[parent].kids) >= 2

(***************************************************************************)
(* C10.  With more leaf tokens in the parse string than entries in the     *)
(* token sequence, parse_pstree fails at the first leaf for which no       *)
(* token is left, with the IndexError of tokens_elem[token_count]; no      *)
(* mapping is returned.                                                    *)
(***************************************************************************)
LeavesWithoutToken == {j \in Leaves : LeafNo(j) > Len(tokenSpans)}

TokenExhaustionRaises ==
    \A j \in Syms :
        (Kind(j) = "leaf" /\ LeafNo(j) > Len(tokenSpans)) =>
            /\ pc # "done"
            /\ result = <<>>
            /\ pos <= j
            /\ (pc = "error" /\ pos = j) =>
                  /\ err = "IndexError"
                  /\ token_count = Len(tokenSpans)

RaisedAtLeafWithoutToken ==
    /\ pc = "error"
    /\ err = "IndexError"
    /\ pos \in LeavesWithoutToken
    /\ token_count = Len(tokenSpans)
    /\ token_count >= 1

(***************************************************************************)
(* C11.  With more entries in the token sequence than leaves in the parse  *)
(* string, the excess raises no error, and the outcome (the mapping, or    *)
(* the error the parse string itself causes) is exactly the outcome for    *)
(* the token sequence truncated to the number of leaves.                   *)
(***************************************************************************)
\* what the call has come to: the exception raised or the dict returned
Outcome == [err |-> err, map |-> result]

ExcessTokensIgnored ==
    (pc # "scan" /\ Len(tokens_elem) > Cardinality(Leaves)) =>
        /\ err # "IndexError"
        /\ Outcome = ParsePstree(parse,
                                 SubSeq(tokens_elem, 1, Cardinality(Leaves)))

ReturnedWithExcessTokens ==
    /\ pc = "done"
    /\ Leaves # {}
    /\ Len(tokens_elem) > Cardinality(Leaves)

\* the loop run step by step and the loop run as a function agree
ScanAgrees == pc # "scan" => Outcome = ParsePstree(parse, tokens_elem)

(***************************************************************************)
(* add_offsets(vars_dir, scnlp_dir, resume), vars.py:110-160.              *)
(***************************************************************************)
MaxFiles == 3

\* "(X w )", a sentence that parses
GoodParse == <<"(", "X", " ", "w", " ", ")">>

\* "(X )", a sentence parse_pstree raises TypeError on
BadParse == <<"(", "X", " ", ")">>

\* the <sentence> elements of an SCNLP document: the k-th has the parse
\* ps[k] and one token, with the k-th span of the text
Document(ps) ==
    [k \in 1..Len(ps) |-> [parse |-> ps[k], tokens |-> <<TokenElem(Span(k))>>]]

GoodDoc == Document(<<GoodParse, GoodParse>>)
BadDoc == Document(<<GoodParse, BadParse>>)

\* a record of a variable file as extraction leaves it, without offsets
Record(treeNumber, nodeNumber) ==
    [treeNumber |-> treeNumber, nodeNumber |-> nodeNumber,
     charOffsetBegin |-> <<>>, charOffsetEnd |-> <<>>]

\* Python truth of rec.get(key): a missing key (None) and 0 are false
Truthy(value) == value # <<>> /\ value[1] # 0

\* the position in sentences_elem of index int(tree_number) - 1, or 0 when
\* the index is out of range; a negative index counts from the end
SentenceIndex(sentences_elem, tree_number) ==
    LET i == tree_number - 1
        n == Len(sentences_elem)
    IN  IF i \in 0..(n - 1) THEN i + 1
        ELSE IF -i \in 1..n THEN n + i + 1
        ELSE 0

\* the loop over the records of one file from the i-th record on,
\* vars.py:147-156: the exception raised, or "none" and the records with
\* their offsets
RECURSIVE OffsetRecords(_, _, _, _, _)
OffsetRecords(records, i, sentences_elem, tree_number, node2indices) ==
    IF i > Len(records) THEN [err |-> "none", records |-> records]
    ELSE
        LET rec == records[i]
            k == SentenceIndex(sentences_elem, rec.treeNumber)
            out == IF rec.treeNumber = tree_number
                   THEN [err |-> "none", map |-> node2indices]
                   ELSE IF k = 0 THEN [err |-> "IndexError", map |-> <<>>]
                   ELSE ParsePstree(sentences_elem[k].parse,
                                    sentences_elem[k].tokens)
        IN  IF out.err # "none" THEN [err |-> out.err, records |-> records]
            ELSE IF rec.nodeNumber \notin DOMAIN out.map
            THEN [err |-> "KeyError", records |-> records]
            ELSE OffsetRecords(
                     [records EXCEPT
                         ![i].charOffsetBegin = <<out.map[rec.nodeNumber][1]>>,
                         ![i].charOffsetEnd = <<out.map[rec.nodeNumber][2]>>],
                     i + 1, sentences_elem, rec.treeNumber, out.map)

\* the body of the loop for one file that is not skipped, vars.py:140-156
FileOffsets(file, records) ==
    OffsetRecords(records, 1, file.scnlp, None, <<>>)

\* the lists of records of the variable files
RecordLists ==
    { <<>>, <<Record(1, 1)>>, <<Record(2, 1)>>,
      <<Record(1, 1), Record(2, 1)>>, <<Record(1, 3)>> }

\* the variable files a batch is made of: as extraction left them, or as an
\* earlier run of add_offsets rewrote them
Files ==
    LET raw == [scnlp : {GoodDoc, BadDoc}, records : RecordLists]
    IN  raw \cup { [scnlp |-> f.scnlp, records |-> FileOffsets(f, f.records).records] :
                     f \in {g \in raw : FileOffsets(g, g.records).err = "none"} }

Batches == UNION { [1..n -> Files] : n \in 1..MaxFiles }

InitOffsets ==
    /\ batch \in Batches
    /\ resume \in BOOLEAN
    /\ fi = 1
    /\ disk = [i \in DOMAIN batch |-> batch[i].records]
    /\ rewritten = {}
    /\ opc = "run"
    /\ oerr = "none"
    /\ ParseIdle
    /\ PruneIdle
    /\ RunIdle

\* the file has offsets already, vars.py:137-139
HasOffsets(records) ==
    /\ records # <<>>
    /\ Truthy(records[1].charOffsetBegin)
    /\ Truthy(records[1].charOffsetEnd)

\* vars.py:130-135: a file without records is skipped
SkipEmptyFile ==
    /\ opc = "run"
    /\ fi <= Len(batch)
    /\ disk[fi] = <<>>
    /\ fi' = fi + 1
    /\ UNCHANGED <<batch, resume, disk, rewritten, opc, oerr>>
    /\ UNCHANGED <<pvars, gvars, rvars>>

\* vars.py:137-139: with resume, a file that has offsets is skipped
SkipFileWithOffsets ==
    /\ opc = "run"
    /\ fi <= Len(batch)
    /\ disk[fi] # <<>>
    /\ resume /\ HasOffsets(disk[fi])
    /\ fi' = fi + 1
    /\ UNCHANGED <<batch, resume, disk, rewritten, opc, oerr>>
    /\ UNCHANGED <<pvars, gvars, rvars>>

\* vars.py:141-160: the records get their offsets and the file is rewritten;
\* an exception leaves the function, no handler is around the loop body
AddFileOffsets ==
    /\ opc = "run"
    /\ fi <= Len(batch)
    /\ disk[fi] # <<>>
    /\ ~(resume /\ HasOffsets(disk[fi]))
    /\ LET out == FileOffsets(batch[fi], disk[fi])
       IN  IF out.err # "none"
           THEN /\ opc' = "error"
                /\ oerr' = out.err
                /\ UNCHANGED <<fi, disk, rewritten>>
           ELSE /\ disk' = [disk EXCEPT ![fi] = out.records]
                /\ rewritten' = rewritten \cup {fi}
                /\ fi' = fi + 1
                /\ UNCHANGED <<opc, oerr>>
    /\ UNCHANGED <<batch, resume>>
    /\ UNCHANGED <<pvars, gvars, rvars>>

\* vars.py:127: the loop over the files is over
ReturnOffsets ==
    /\ opc = "run"
    /\ fi > Len(batch)
    /\ opc' = "done"
    /\ UNCHANGED <<batch, resume, fi, disk, rewritten, oerr>>
    /\ UNCHANGED <<pvars, gvars, rvars>>

NextOffsets ==
    SkipEmptyFile \/ SkipFileWithOffsets \/ AddFileOffsets \/ ReturnOffsets

SpecOffsets == InitOffsets /\ [][NextOffsets]_vars

\* the files of the batch parse_pstree (or the lookup of a node) fails on
FailingFiles ==
    {i \in DOMAIN batch :
        /\ batch[i].records # <<>>
        /\ ~(resume /\ HasOffsets(batch[i].records))
        /\ FileOffsets(batch[i], batch[i].records).err # "none"}

\* the files of the batch that are to get offsets and do so without failure
SoundFiles ==
    {i \in DOMAIN batch :
        /\ batch[i].records # <<>>
        /\ ~(resume /\ HasOffsets(batch[i].records))
        /\ FileOffsets(batch[i], batch[i].records).err = "none"}

\* C12: a failure of parse_pstree on one document does not end the batch:
\* add_offsets returns, and every other document that is due has been given
\* its offsets and been rewritten, wherever the failing document stands
FailureIsPerDocument ==
    (opc \in {"done", "error"} /\ FailingFiles # {}) =>
        /\ opc = "done"
        /\ \A i \in SoundFiles :
              /\ i \in rewritten
              /\ disk[i] = FileOffsets(batch[i], batch[i].records).records

\* what the code does: the first failing file ends the batch, the files
\* before it are rewritten and no file after it is
FailureEndsBatch ==
    (opc \in {"done", "error"} /\ FailingFiles # {}) =>
        /\ opc = "error"
        /\ fi \in FailingFiles
        /\ \A i \in FailingFiles : fi <= i
        /\ rewritten = {i \in SoundFiles : i < fi}

FailedBeforeSoundFile ==
    /\ opc = "error"
    /\ \E i \in SoundFiles : i > fi

OffsetsTypeOK ==
    /\ opc \in {"run", "done", "error"}
    /\ fi \in 1..(Len(batch) + 1)
    /\ rewritten \subseteq DOMAIN batch
    /\ DOMAIN disk = DOMAIN batch

(***************************************************************************)
(* prune_tentails(session), n4j/postproc.py:34-109.  The database holds    *)
(* the VariableType nodes, the TENTAILS_VAR relationships between them     *)
(* (several may join the same two nodes) and the HAS_VAR relationships     *)
(* from EventInst nodes to them, n4j/csvimport.py:405-442.                 *)
(***************************************************************************)
MaxEdges == 3

\* LIMIT of the deleting queries
BatchLimit == 25000

NodeSeq == <<"A", "B", "C", "D">>
Nodes == {NodeSeq[i] : i \in DOMAIN NodeSeq}
Pairs == Nodes \X Nodes

RECURSIVE SumOver(_, _)
SumOver(f, S) ==
    IF S = {} THEN 0
    ELSE LET x == CHOOSE y \in S : TRUE IN f[x] + SumOver(f, S \ {x})

\* a graph: its nodes, the number of TENTAILS_VAR relationships of every
\* ordered pair of nodes, and the nodes an EventInst has a HAS_VAR to
Graph(ns, rels, ref) == [nodes |-> ns, rels |-> rels, ref |-> ref]

Tentails(g, u, w) == g.rels[<<u, w>>] > 0

\* size((v)-->()): VariableType nodes have no other outgoing relationship
OutDegree(g, v) == SumOver(g.rels, {v} \X Nodes)

InDegree(g, v) == SumOver(g.rels, Nodes \X {v})

\* the HAS_VAR relationships of v; one stands for any number of them
HasVar(g, v) == IF v \in g.ref THEN 1 ELSE 0

\* size((v)--()): a relationship from v to v is one relationship
DegreeTentailsOnly(g, v) ==
    OutDegree(g, v) + InDegree(g, v) - g.rels[<<v, v>>]
Degree(g, v) ==
    OutDegree(g, v) + InDegree(g, v) - g.rels[<<v, v>>] + HasVar(g, v)

\* WITH ... LIMIT 25000: the batches a query may take out of its matches
LimitTo(S, most) ==
    LET n == IF Cardinality(S) <= most THEN Cardinality(S) ELSE most
    IN  {T \in SUBSET S : Cardinality(T) = n}

Limit(S) == LimitTo(S, BatchLimit)

\* DETACH DELETE of the nodes S
DetachDelete(g, S) ==
    Graph(g.nodes \ S,
          [p \in Pairs |-> IF p[1] \in S \/ p[2] \in S THEN 0 ELSE g.rels[p]],
          g.ref \ S)

\* query 1, postproc.py:43-52: of the relationships of every ordered pair
\* all but one are deleted
NoneCollected(n) == 0
OneDuplicate(n) == IF n > 1 THEN 1 ELSE 0
\* the size of TAIL(COLLECT(r)) for n relationships
Duplicates(n) == IF n > 0 THEN n - 1 ELSE 0

Query1(g) ==
    Graph(g.nodes, [p \in Pairs |-> g.rels[p] - Duplicates(g.rels[p])], g.ref)

\* query 2, postproc.py:56-65: the nodes it matches
DeadEndsIsolated(g) ==
    {v \in g.nodes : Degree(g, v) = 0 /\ v \notin g.ref}
DeadEndsUnreferencedOrNot(g) == {v \in g.nodes : OutDegree(g, v) = 0}
DeadEnds(g) == {v \in g.nodes : OutDegree(g, v) = 0 /\ v \notin g.ref}

Query2(g, batch_) == DetachDelete(g, batch_)

\* query 3, postproc.py:80-91: the rows <<v1, v2, v3>> it matches; the two
\* relationships of a path are two different relationships
Rows(g) ==
    {r \in g.nodes \X g.nodes \X g.nodes :
        /\ Tentails(g, r[1], r[2])
        /\ Tentails(g, r[2], r[3])
        /\ (r[1] = r[2] /\ r[2] = r[3]) => g.rels[<<r[2], r[2]>>] > 1
        /\ Degree(g, r[2]) = 2
        /\ (Degree(g, r[1]) > 2 \/ r[1] \in g.ref)}

\* MERGE (v1)-[:TENTAILS_VAR]->(v3) for the rows of the batch
MergeNothing(g, rows) == g
MergeAtSource(g, rows) ==
    Graph(g.nodes,
          [p \in Pairs |->
              IF g.rels[p] = 0 /\ \E r \in rows : p = <<r[1], r[1]>>
              THEN 1 ELSE g.rels[p]],
          g.ref)
MergeCreates(g, rows) ==
    Graph(g.nodes,
          [p \in Pairs |->
              g.rels[p] + Cardinality({r \in rows : p = <<r[1], r[3]>>})],
          g.ref)
MergeReversed(g, rows) ==
    Graph(g.nodes,
          [p \in Pairs |->
              IF g.rels[p] = 0 /\ \E r \in rows : p = <<r[3], r[1]>>
              THEN 1 ELSE g.rels[p]],
          g.ref)
Merge(g, rows) ==
    Graph(g.nodes,
          [p \in Pairs |->
              IF g.rels[p] = 0 /\ \E r \in rows : p = <<r[1], r[3]>>
              THEN 1 ELSE g.rels[p]],
          g.ref)

Deleted(rows) == {r[2] : r \in rows}

\* a row whose v1 or v3 the batch has deleted cannot be merged: the query
\* fails and its transaction is rolled back
Query3Fails(rows) ==
    \E r \in rows : r[1] \in Deleted(rows) \/ r[3] \in Deleted(rows)

Query3(g, rows) == Merge(DetachDelete(g, Deleted(rows)), rows)

\* summary.counters.nodes_deleted of a query that made g2 of g,
\* postproc.py:258
NodesCreated(g, g2) == Cardinality(g2.nodes \ g.nodes)
NodesDeleted(g, g2) == Cardinality(g.nodes \ g2.nodes)

\* the graphs prune_tentails is called on: up to MaxEdges relationships,
\* any of them between the same two nodes or from a node to itself, and
\* (graphs being the same up to the names of their nodes) the first k nodes
\* referenced
PairAt(n) == <<NodeSeq[((n - 1) \div Len(NodeSeq)) + 1],
               NodeSeq[((n - 1) % Len(NodeSeq)) + 1]>>

RelSeqs ==
    UNION { { q \in [1..k -> 1..Cardinality(Pairs)] :
                \A i \in 1..(k - 1) : q[i] <= q[i + 1] } : k \in 0..MaxEdges }

RelsOf(q) == [p \in Pairs |-> Cardinality({i \in DOMAIN q : PairAt(q[i]) = p})]

Graphs ==
    { Graph(Nodes, RelsOf(q), {NodeSeq[i] : i \in 1..k}) :
        q \in RelSeqs, k \in 0..Len(NodeSeq) }

\* while deletion_count != 0 of iterative_deletion, postproc.py:255
AgainAlways(count) == count >= 0
Again(count) == count # 0

\* while deletion_count != 0 of prune_tentails, postproc.py:98
PassOnce(count) == FALSE
PassAgain(count) == count # 0

InitPrune ==
    /\ graph0 \in Graphs
    /\ graph = graph0
    /\ gpc = "dedup"
    /\ deletion_count = 0
    /\ pass0 = graph0
    /\ limit = BatchLimit
    /\ ParseIdle
    /\ OffsetsIdle
    /\ RunIdle

\* postproc.py:52: run_write_query(session, query1); the loop is entered
\* and sets deletion_count = 0, postproc.py:93-97
Deduplicate ==
    /\ gpc = "dedup"
    /\ graph' = Query1(graph)
    /\ deletion_count' = 0
    /\ pass0' = graph'
    /\ gpc' = "deadend"
    /\ UNCHANGED <<graph0, limit>>
    /\ UNCHANGED <<pvars, ovars, rvars>>

\* postproc.py:99 and 249-262: one run of query2 in iterative_deletion; a
\* run that deletes nothing ends iterative_deletion
DeleteDeadEnds ==
    /\ gpc = "deadend"
    /\ \E batch_ \in LimitTo(DeadEnds(graph), limit) :
          /\ graph' = Query2(graph, batch_)
          /\ deletion_count' = deletion_count + NodesDeleted(graph, graph')
          /\ gpc' = IF Again(NodesDeleted(graph, graph'))
                    THEN "deadend" ELSE "collapse"
    /\ UNCHANGED <<graph0, limit, pass0>>
    /\ UNCHANGED <<pvars, ovars, rvars>>

\* postproc.py:101 and 249-262: one run of query3 in iterative_deletion; a
\* run that deletes nothing ends iterative_deletion and the pass, and the
\* loop of prune_tentails goes on unless the pass has deleted nothing,
\* postproc.py:95-103
CollapseChains ==
    /\ gpc = "collapse"
    /\ \E rows \in LimitTo(Rows(graph), limit) :
          IF Query3Fails(rows)
          THEN /\ gpc' = "error"
               /\ UNCHANGED <<graph, deletion_count, pass0>>
          ELSE /\ graph' = Query3(graph, rows)
               /\ IF Again(NodesDeleted(graph, graph'))
                  THEN /\ deletion_count' =
                              deletion_count + NodesDeleted(graph, graph')
                       /\ gpc' = "collapse"
                       /\ UNCHANGED pass0
                  ELSE IF PassAgain(deletion_count + NodesDeleted(graph, graph'))
                  THEN /\ deletion_count' = 0
                       /\ gpc' = "deadend"
                       /\ pass0' = graph'
                  ELSE /\ deletion_count' = 0
                       /\ gpc' = "done"
                       /\ UNCHANGED pass0
    /\ UNCHANGED <<graph0, limit>>
    /\ UNCHANGED <<pvars, ovars, rvars>>

NextPrune == Deduplicate \/ DeleteDeadEnds \/ CollapseChains

SpecPrune == InitPrune /\ [][NextPrune]_vars

\* prune_tentails with a LIMIT that the matches of a query exceed, on graphs
\* without a relationship from a node to itself: the graphs of up to
\* MaxBatchEdges relationships, no two of them between the same pair, and
\* the graphs of up to MaxEdges relationships; the LIMIT is 1 to MaxLimit
MaxBatchEdges == 5
MaxLimit == 2

BatchRelSets ==
    {S \in SUBSET {p \in Pairs : p[1] # p[2]} : Cardinality(S) <= MaxBatchEdges}

NoSelfLoop(g) == \A v \in Nodes : ~Tentails(g, v, v)

BatchGraphs ==
    { Graph(Nodes, [p \in Pairs |-> IF p \in S THEN 1 ELSE 0],
            {NodeSeq[i] : i \in 1..k}) :
        S \in BatchRelSets, k \in 0..Len(NodeSeq) }
        \cup {g \in Graphs : NoSelfLoop(g)}

InitBatches ==
    /\ graph0 \in BatchGraphs
    /\ graph = graph0
    /\ gpc = "dedup"
    /\ deletion_count = 0
    /\ pass0 = graph0
    /\ limit \in 1..MaxLimit
    /\ ParseIdle
    /\ OffsetsIdle
    /\ RunIdle

SpecBatches == InitBatches /\ [][NextPrune]_vars

\* prune_tentails never stopped for ever before a query that is due (the
\* session runs each query it is given, postproc.py:257), on the graphs of
\* up to MaxFairEdges relationships, no two of them between the same pair
\* and none from a node to itself, with the LIMIT of the code and with a
\* LIMIT of one
MaxFairEdges == 3

FairGraphs ==
    { Graph(Nodes, [p \in Pairs |-> IF p \in S THEN 1 ELSE 0],
            {NodeSeq[i] : i \in 1..k}) :
        S \in {T \in BatchRelSets : Cardinality(T) <= MaxFairEdges},
        k \in 0..Len(NodeSeq) }

InitFair ==
    /\ graph0 \in FairGraphs
    /\ graph = graph0
    /\ gpc = "dedup"
    /\ deletion_count = 0
    /\ pass0 = graph0
    /\ limit \in {1, BatchLimit}
    /\ ParseIdle
    /\ OffsetsIdle
    /\ RunIdle

FairPrune == InitFair /\ [][NextPrune]_vars /\ WF_vars(NextPrune)

PruneTypeOK ==
    /\ gpc \in {"dedup", "deadend", "collapse", "done", "error"}
    /\ graph.nodes \subseteq graph0.nodes
    /\ graph.ref \subseteq graph.nodes
    /\ \A p \in Pairs :
          graph.rels[p] > 0 => (p[1] \in graph.nodes /\ p[2] \in graph.nodes)

\* C13: the deduplication step leaves exactly one relationship between
\* every ordered pair of nodes that had one or more, gives none to a pair
\* that had none, and leaves the set of nodes as it was
DeduplicationKeepsOnePerPair ==
    [][gpc = "dedup" =>
          /\ \A p \in Pairs :
                /\ graph.rels[p] >= 1 => graph'.rels[p] = 1
                /\ graph.rels[p] = 0 => graph'.rels[p] = 0
          /\ graph'.nodes = graph.nodes]_vars

DuplicatesRemoved ==
    /\ gpc = "deadend"
    /\ graph.nodes = graph0.nodes
    /\ \E p \in Pairs : graph0.rels[p] >= 2 /\ graph.rels[p] = 1
    /\ \E p \in Pairs : graph0.rels[p] = 0 /\ graph.rels[p] = 0

\* C14: a node an event instance refers to is never deleted, whatever the
\* graph prune_tentails is called on
ReferencedNodesKept ==
    /\ graph0.ref \subseteq graph.nodes
    /\ graph.ref = graph0.ref

\* pruning has deleted nodes and kept a referenced node without outgoing
\* relationship and a referenced node between two others
ReferencedNodesSurvivedPruning ==
    /\ gpc = "done"
    /\ graph.nodes # graph0.nodes
    /\ \E v \in graph0.ref : OutDegree(Query1(graph0), v) = 0
    /\ \E v \in graph0.ref :
          /\ OutDegree(Query1(graph0), v) = 1
          /\ InDegree(Query1(graph0), v) = 1
          /\ ~Tentails(graph0, v, v)

\* a node with exactly one incoming and exactly one outgoing relationship
\* and no reference of an event
PassThrough(g, v) ==
    /\ v \in g.nodes
    /\ InDegree(g, v) = 1
    /\ OutDegree(g, v) = 1
    /\ ~Tentails(g, v, v)
    /\ v \notin g.ref

\* C15: when prune_tentails returns, no node with exactly one incoming and
\* exactly one outgoing relationship and no event reference is left,
\* whatever its predecessor
NoPassThroughSurvives ==
    gpc = "done" => \A v \in Nodes : ~PassThrough(graph, v)

\* what the code leaves: a pass-through node survives only behind a
\* predecessor without reference and with at most two relationships
PassThroughSurvivesBehindPlainNode ==
    gpc = "done" =>
        \A v \in Nodes : PassThrough(graph, v) =>
            \A u \in Nodes : Tentails(graph, u, v) =>
                (u \notin graph.ref /\ Degree(graph, u) <= 2)

\* C16: when prune_tentails returns, every node without an outgoing
\* relationship is referenced by an event
NoDeadEndRemains ==
    gpc = "done" =>
        \A v \in graph.nodes : OutDegree(graph, v) = 0 => v \in graph.ref

\* dead ends have been deleted one behind the other, and a referenced node
\* without outgoing relationship is left
DeadEndsDeletedUpstream ==
    /\ gpc = "done"
    /\ \E u, v \in graph0.nodes \ graph.nodes :
          /\ u # v
          /\ Tentails(graph0, u, v)
          /\ OutDegree(Query1(graph0), u) = 1
          /\ OutDegree(graph0, v) = 0
    /\ \E v \in graph.ref : OutDegree(graph, v) = 0

\* the graph has the relationships a->b->c->d and no other, a is
\* referenced, b and c are not
IsChain(g, a, b, c, d) ==
    /\ Cardinality({a, b, c, d}) = 4
    /\ \A p \in Pairs :
          g.rels[p] = IF p \in {<<a, b>>, <<b, c>>, <<c, d>>} THEN 1 ELSE 0
    /\ a \in g.ref
    /\ b \notin g.ref
    /\ c \notin g.ref

\* b and c are deleted and a->d is the one relationship left
CollapsedTo(g, a, b, c, d) ==
    /\ b \notin g.nodes
    /\ c \notin g.nodes
    /\ a \in g.nodes
    /\ d \in g.nodes
    /\ \A p \in Pairs : g.rels[p] = IF p = <<a, d>> THEN 1 ELSE 0

\* C17 as claimed: on A->B->C->D with A referenced, B and C unreferenced,
\* whatever D, pruning ends with B and C deleted and the one relationship
\* A->D
ChainCollapsesWhateverEnd ==
    \A a, b, c, d \in Nodes :
        (gpc = "done" /\ IsChain(graph0, a, b, c, d)) =>
            CollapsedTo(graph, a, b, c, d)

\* C17 as amended: on A->B->C->D with A and D referenced, B and C
\* unreferenced, pruning ends with B and C deleted and the one relationship
\* A->D
ChainCollapsesBetweenReferencedEnds ==
    \A a, b, c, d \in Nodes :
        (gpc = "done" /\ IsChain(graph0, a, b, c, d) /\ d \in graph0.ref) =>
            CollapsedTo(graph, a, b, c, d)

ChainCollapsed ==
    /\ gpc = "done"
    /\ \E a, b, c, d \in Nodes :
          /\ IsChain(graph0, a, b, c, d)
          /\ d \in graph0.ref
          /\ CollapsedTo(graph, a, b, c, d)

\* with D unreferenced the whole chain behind A is deleted as dead ends
ChainDeletedFromUnreferencedEnd ==
    \A a, b, c, d \in Nodes :
        (gpc = "done" /\ IsChain(graph0, a, b, c, d) /\ d \notin graph0.ref) =>
            /\ graph.nodes = graph0.ref
            /\ \A p \in Pairs : graph.rels[p] = 0

\* the nodes a path of one or more relationships leads to from b
RECURSIVE Closure(_, _)
Closure(g, S) ==
    LET T == S \cup {w \in g.nodes : \E u \in S : Tentails(g, u, w)}
    IN  IF T = S THEN S ELSE Closure(g, T)

ReachableFrom(g, b) == Closure(g, {w \in g.nodes : Tentails(g, b, w)})

\* referenced by an event, or with more than one TENTAILS_VAR relationship
Anchor(g, v) ==
    /\ v \in g.nodes
    /\ (v \in g.ref \/ DegreeTentailsOnly(g, v) > 1)

\* C18: between nodes that exist, and are referenced or have more than one
\* relationship, before and after pruning, a is reachable from b after
\* pruning if and only if it was before
ReachabilityPreserved ==
    gpc = "done" =>
        \A a, b \in Nodes :
            (Anchor(graph0, a) /\ Anchor(graph0, b)
                 /\ Anchor(graph, a) /\ Anchor(graph, b)) =>
                (a \in ReachableFrom(graph, b) <=> a \in ReachableFrom(graph0, b))

\* a is reachable from b over a relationship that pruning has created in
\* place of deleted nodes, and some other anchor is reachable from b neither
\* before nor after
ReachableOverMergedRelationship ==
    /\ gpc = "done"
    /\ \E a, b \in Nodes :
          /\ Anchor(graph0, a) /\ Anchor(graph0, b)
          /\ Anchor(graph, a) /\ Anchor(graph, b)
          /\ ~Tentails(graph0, b, a)
          /\ Tentails(graph, b, a)
          /\ a \in ReachableFrom(graph0, b)
    /\ \E a, b \in Nodes :
          /\ Anchor(graph0, a) /\ Anchor(graph0, b)
          /\ Anchor(graph, a) /\ Anchor(graph, b)
          /\ a \notin ReachableFrom(graph0, b)
          /\ a \notin ReachableFrom(graph, b)

\* reachability is kept between all the nodes that are left, and at every
\* point of the run
ReachabilityPreservedThroughout ==
    \A a, b \in graph.nodes :
        a \in ReachableFrom(graph, b) <=> a \in ReachableFrom(graph0, b)

PruneFailed == gpc = "error"

(***************************************************************************)
(* prune_tentails as a function of the graph it is called on: the          *)
(* exception it ends with or "none", the graph it leaves, and the number   *)
(* of queries that have changed the graph.                                 *)
(***************************************************************************)
\* iterative_deletion(session, query2), postproc.py:249-262
RECURSIVE DeadEndLoop(_)
DeadEndLoop(g) ==
    LET g2 == Query2(g, CHOOSE batch_ \in Limit(DeadEnds(g)) : TRUE)
        rest == DeadEndLoop(g2)
    IN  IF ~Again(NodesDeleted(g, g2))
        THEN [graph |-> g2, total |-> 0, writes |-> IF g2 = g THEN 0 ELSE 1]
        ELSE [graph |-> rest.graph,
              total |-> NodesDeleted(g, g2) + rest.total,
              writes |-> 1 + rest.writes]

\* iterative_deletion(session, query3), postproc.py:249-262
RECURSIVE CollapseLoop(_)
CollapseLoop(g) ==
    LET rows == CHOOSE batch_ \in Limit(Rows(g)) : TRUE
        g2 == Query3(g, rows)
        rest == CollapseLoop(g2)
    IN  IF Query3Fails(rows)
        THEN [err |-> "error", graph |-> g, total |-> 0, writes |-> 0]
        ELSE IF ~Again(NodesDeleted(g, g2))
        THEN [err |-> "none", graph |-> g2, total |-> 0,
              writes |-> IF g2 = g THEN 0 ELSE 1]
        ELSE [err |-> rest.err, graph |-> rest.graph,
              total |-> NodesDeleted(g, g2) + rest.total,
              writes |-> 1 + rest.writes]

\* the loop of prune_tentails, postproc.py:95-103
RECURSIVE PruneLoop(_)
PruneLoop(g) ==
    LET dead == DeadEndLoop(g)
        coll == CollapseLoop(dead.graph)
        rest == PruneLoop(coll.graph)
    IN  IF coll.err # "none" \/ ~PassAgain(dead.total + coll.total)
        THEN [err |-> coll.err, graph |-> coll.graph,
              writes |-> dead.writes + coll.writes]
        ELSE [err |-> rest.err, graph |-> rest.graph,
              writes |-> dead.writes + coll.writes + rest.writes]

PruneTentails(g) ==
    LET run == PruneLoop(Query1(g))
    IN  [err |-> run.err, graph |-> run.graph,
         writes |-> run.writes + IF Query1(g) = g THEN 0 ELSE 1]

\* the run step by step and the run as a function end alike
PruneAgrees ==
    gpc \in {"done", "error"} =>
        LET whole == PruneTentails(graph0)
        IN  /\ whole.err = IF gpc = "done" THEN "none" ELSE "error"
            /\ whole.graph = graph

\* C19: a second run of prune_tentails on the graph a completed run has
\* left deletes no node and no relationship and creates no relationship
SecondRunChangesNothing ==
    gpc = "done" =>
        LET second == PruneTentails(graph)
        IN  /\ second.err = "none"
            /\ second.writes = 0
            /\ second.graph = graph

\* the first run has deleted dead ends and collapsed nodes in more than one
\* pass of the loop
PrunedInSeveralPasses ==
    /\ gpc = "done"
    /\ PruneTentails(graph0).writes >= 3
    /\ graph.nodes # graph0.nodes
    /\ \E p \in Pairs : graph.rels[p] > graph0.rels[p]

FinalGraphIndependentOfBatches ==
    gpc \in {"done", "error"} =>
        LET whole == PruneTentails(graph0)
        IN  /\ whole.err = IF gpc = "done" THEN "none" ELSE "error"
            /\ whole.graph = graph

\* the relationships query3 is to leave for the nodes it deletes: when v,
\* between u and w, is deleted, there is one relationship u->w afterwards,
\* and a relationship appears nowhere else
MergedOnce(g, g2) ==
    /\ \A v \in g.nodes \ g2.nodes :
          \A u, w \in Nodes :
              (Tentails(g, u, v) /\ Tentails(g, v, w)) => g2.rels[<<u, w>>] = 1
    /\ \A p \in Pairs :
          g2.rels[p] > g.rels[p] =>
              /\ g.rels[p] = 0
              /\ \E v \in g.nodes \ g2.nodes :
                    Tentails(g, p[1], v) /\ Tentails(g, v, p[2])

\* C22: from the deduplication step on there is at most one relationship
\* per ordered pair of nodes; a collapse leaves one relationship u->w for
\* every deleted v between u and w, a new one only where there was none,
\* also when a batch deletes several nodes between the same u and w
OneRelationshipPerPair ==
    /\ [](gpc # "dedup" => \A p \in Pairs : graph.rels[p] <= 1)
    /\ [][gpc = "collapse" => MergedOnce(graph, graph')]_vars

\* one batch has deleted two nodes between the same u and w
TwoCollapsedBetweenSamePair ==
    /\ gpc = "collapse"
    /\ deletion_count = 2
    /\ \E u, w \in graph.nodes :
          /\ graph.rels[<<u, w>>] = 1
          /\ graph0.rels[<<u, w>>] = 0
          /\ Cardinality({v \in graph0.nodes \ graph.nodes :
                 Tentails(graph0, u, v) /\ Tentails(graph0, v, w)}) = 2

\* a node has been deleted between u and w that had a relationship u->w
CollapsedBesideRelationship ==
    /\ gpc = "collapse"
    /\ deletion_count = 1
    /\ \E u, w \in graph.nodes :
          /\ graph.rels[<<u, w>>] = 1
          /\ graph0.rels[<<u, w>>] = 1
          /\ \E v \in graph0.nodes \ graph.nodes :
                 Tentails(graph0, u, v) /\ Tentails(graph0, v, w)

\* C23: the loop is left only after a full pass in which the dead-end
\* deletion, run to exhaustion, and then the collapse, run to exhaustion,
\* deleted no node; and each of the two is repeated until one execution of
\* its query deletes no node
LoopLeftAfterIdlePass ==
    [][/\ gpc' = "done" =>
             /\ gpc = "collapse"
             /\ graph' = graph
             /\ graph = pass0
             /\ DeadEnds(graph) = {}
             /\ Rows(graph) = {}
       /\ (gpc = "deadend" /\ gpc' = "deadend") => graph'.nodes # graph.nodes
       /\ (gpc = "deadend" /\ gpc' = "collapse") =>
             (graph'.nodes = graph.nodes /\ DeadEnds(graph) = {})
       /\ (gpc = "collapse" /\ gpc' = "collapse") => graph'.nodes # graph.nodes
       /\ (gpc = "collapse" /\ gpc' \in {"deadend", "done"}) =>
             (graph'.nodes = graph.nodes /\ Rows(graph) = {})
       /\ (gpc = "collapse" /\ gpc' = "deadend") => graph # pass0]_vars

\* the loop was left after a pass that deleted nothing, which followed a
\* pass with several executions of both queries
LeftAfterSecondPass ==
    /\ gpc = "done"
    /\ graph = pass0
    /\ pass0 # Query1(graph0)
    /\ Cardinality(graph0.nodes \ graph.nodes) > limit
    /\ \E p \in Pairs : graph.rels[p] > graph0.rels[p]

\* C24 as claimed: among the graphs prune_tentails may be called on there
\* is one on which, the dead ends deleted to exhaustion, the collapse
\* deletes a node and leaves a dead end for the following run of query2
CollapseCanMakeDeadEnd ==
    gpc = "dedup" =>
        \E g \in Graphs \cup BatchGraphs :
            LET dead == DeadEndLoop(Query1(g))
                coll == CollapseLoop(dead.graph)
            IN  /\ coll.err = "none"
                /\ coll.total > 0
                /\ DeadEnds(coll.graph) # {}

\* C24 as amended: once query2 has run to exhaustion, no collapse makes a
\* dead end: while query3 is run and in every later pass of the loop,
\* query2 has nothing to delete
NoDeadEndAfterCollapse ==
    (\/ gpc \in {"collapse", "done"}
     \/ (gpc = "deadend" /\ pass0 # Query1(graph0))) => DeadEnds(graph) = {}

\* query2 has run again after a pass in which the collapse deleted a node
\* whose predecessor has no reference
DeadEndsSoughtAfterCollapse ==
    /\ gpc = "collapse"
    /\ pass0 # Query1(graph0)
    /\ \E u, w \in graph.nodes \ graph.ref :
          /\ graph.rels[<<u, w>>] = 1
          /\ graph0.rels[<<u, w>>] = 0

HasCycle(g) ==
    \E v \in g.nodes : v \in ReachableFrom(g, v)

\* C25: prune_tentails ends on every graph, cyclic ones included: a query
\* that is run again has deleted a node, no step adds a node, and the run
\* comes to its end
PruneTerminates ==
    /\ <>(gpc \in {"done", "error"})
    /\ [][/\ graph'.nodes \subseteq graph.nodes
          /\ (gpc' = gpc /\ gpc \in {"deadend", "collapse"}) =>
                Cardinality(graph'.nodes) < Cardinality(graph.nodes)]_vars

\* the run on a graph with a cycle has ended, and has deleted a node of it
CyclicGraphPruned ==
    /\ gpc = "done"
    /\ HasCycle(graph0)
    /\ graph.nodes # graph0.nodes

\* every record of the file has a charOffsetBegin and a charOffsetEnd
CarriesOffsets(records) ==
    /\ records # <<>>
    /\ \A i \in DOMAIN records :
          /\ records[i].charOffsetBegin # <<>>
          /\ records[i].charOffsetEnd # <<>>

\* C26: with resume, a file whose records carry offsets, whatever their
\* values, is left alone (not parsed again, not rewritten); without resume,
\* every file that has records is processed
ResumeSkipsFilesWithOffsets ==
    [][(opc = "run" /\ fi <= Len(batch) /\ disk[fi] # <<>>) =>
          /\ (resume /\ CarriesOffsets(disk[fi])) =>
                (disk' = disk /\ rewritten' = rewritten /\ opc' = "run")
          /\ ~resume => (fi \in rewritten' \/ opc' = "error")]_vars

\* C27 as claimed: when query3 is run, no node that is the v2 of a row it matches is
\* the v1 or the v3 of a row it matches, so that no relationship is merged
\* at a deleted node
NoRowAtDeletedNode ==
    gpc = "collapse" =>
        \A r1, r2 \in Rows(graph) : r1[2] # r2[1] /\ r1[2] # r2[3]

\* C27 as amended: the same, when the graph query3 is run on has no
\* relationship from a node to itself
NoRowAtDeletedNodeWithoutSelfLoop ==
    (gpc = "collapse" /\ NoSelfLoop(graph)) =>
        \A r1, r2 \in Rows(graph) : r1[2] # r2[1] /\ r1[2] # r2[3]

\* query3 is due on a graph with a cycle and no relationship from a node to
\* itself, and matches several rows
RowsOnCyclicGraph ==
    /\ gpc = "collapse"
    /\ NoSelfLoop(graph)
    /\ HasCycle(graph)
    /\ Cardinality(Deleted(Rows(graph))) > 1

\* C28 as claimed: a run on a graph without a relationship from a node to
\* itself has no such relationship in any state
NoSelfLoopCreated ==
    NoSelfLoop(graph0) => NoSelfLoop(graph)

\* C28 as amended: a run on a graph without a cycle has no relationship
\* from a node to itself in any state
NoSelfLoopOnAcyclicGraph ==
    ~HasCycle(graph0) => NoSelfLoop(graph)

\* the run on a graph without a cycle has ended and has merged a
\* relationship
AcyclicGraphCollapsed ==
    /\ gpc = "done"
    /\ ~HasCycle(graph0)
    /\ \E p \in Pairs : graph.rels[p] = 1 /\ graph0.rels[p] = 0

\* on a graph without a cycle both hold: query3 never has a row at a node
\* it deletes, never fails, and makes no relationship from a node to itself
AcyclicGraphPrunedCleanly ==
    ~HasCycle(graph0) =>
        /\ NoSelfLoop(graph)
        /\ gpc # "error"
        /\ gpc = "collapse" =>
              \A r1, r2 \in Rows(graph) : r1[2] # r2[1] /\ r1[2] # r2[3]

\* the place of symbol i among the open brackets and leaves of the parse
\* string: the number of its node when the tree is walked in pre-order
PreOrderNo(i) == Cardinality({j \in 1..i : Kind(j) # "close"})

\* C29: of a balanced parse string with one top-level node, the node that
\* the k-th open bracket or leaf makes is found at index k of the mapping
\* (a leaf with the span of its token), the indices are 0 to the number of
\* nodes, and index 0 is __ROOT__ with the span of index 1
IndexIsPreOrderNumber ==
    (pc = "done" /\ Balanced /\ SingleTree) =>
        /\ DOMAIN result = 0..Cardinality(Opens \cup Leaves)
        /\ \A i \in Opens \cup Leaves :
              /\ order[PreOrderNo(i) + 1] = ElemAt(i)
              /\ elems[ElemAt(i)].up # None
              /\ i \in Leaves => result[PreOrderNo(i)] = tokenSpans[LeafNo(i)]
              /\ i \in Opens =>
                    \A j \in Opens \cup Leaves :
                        (i < j /\ j < MatchingClose(i)) =>
                            IsDescendant(order[PreOrderNo(j) + 1],
                                         order[PreOrderNo(i) + 1])
        /\ elems[order[1]].tag = "__ROOT__"
        /\ elems[order[1]].up = None
        /\ result[0] = result[1]

\* a tree of two bracketed nodes and two leaves, the second leaf after the
\* inner node, has been returned
NestedTreeReturned ==
    /\ pc = "done"
    /\ Balanced
    /\ SingleTree
    /\ Cardinality(Opens) >= 2
    /\ \E j \in Leaves : j - 1 \in Closes

(***************************************************************************)
(* run_commands(functions), arghconfig.py:305-327, called by run_all of    *)
(* pipeline.script on the steps of the pipeline.                           *)
(***************************************************************************)
MaxSteps == 3

\* return codes of a command: success, failure, ended by signal 9
ReturnCodes == {0, 1, 2, -9}

\* steps of scripts/extract-vars/extract-vars.py
StepNames == {"core_nlp", "offsets", "ppgraph"}

\* func.__name__.replace('_', '-'), arghconfig.py:318
Command(func) ==
    CASE func = "core_nlp" -> "core-nlp"
      [] func = "offsets" -> "offsets"
      [] func = "ppgraph" -> "ppgraph"

\* if cp.returncode != 0: break, arghconfig.py:326-327
BreakNever(returncode) == FALSE
Break(returncode) == returncode # 0

InitRun ==
    /\ functions \in UNION { [1..n -> StepNames] : n \in 0..MaxSteps }
    /\ step_i = 1
    /\ started = <<>>
    /\ returncodes = <<>>
    /\ rpc = "loop"
    /\ ParseIdle
    /\ OffsetsIdle
    /\ PruneIdle

\* arghconfig.py:317-325: the command of step i is started
StartStep ==
    /\ rpc = "loop"
    /\ step_i <= Len(functions)
    /\ started' = Append(started, Command(functions[step_i]))
    /\ rpc' = "running"
    /\ UNCHANGED <<functions, step_i, returncodes>>
    /\ UNCHANGED <<pvars, ovars, gvars>>

\* arghconfig.py:325-327: subprocess.run returns when the command has
\* exited; a return code other than 0 leaves the loop
StepExits ==
    /\ rpc = "running"
    /\ \E returncode \in ReturnCodes :
          /\ returncodes' = Append(returncodes, returncode)
          /\ IF Break(returncode)
             THEN rpc' = "done" /\ UNCHANGED step_i
             ELSE rpc' = "loop" /\ step_i' = step_i + 1
    /\ UNCHANGED <<functions, started>>
    /\ UNCHANGED <<pvars, ovars, gvars>>

\* arghconfig.py:317: the loop is through the list
ReturnCommands ==
    /\ rpc = "loop"
    /\ step_i > Len(functions)
    /\ rpc' = "done"
    /\ UNCHANGED <<functions, step_i, started, returncodes>>
    /\ UNCHANGED <<pvars, ovars, gvars>>

NextRun == StartStep \/ StepExits \/ ReturnCommands

SpecRun == InitRun /\ [][NextRun]_vars

\* C30: the commands are started one at a time, in the order of the list,
\* each after the one before it has exited with return code 0; no command
\* is started after one has exited with another return code
StepsRunInOrderUntilFailure ==
    /\ [](/\ Len(started) <= Len(functions)
          /\ \A k \in DOMAIN started : started[k] = Command(functions[k])
          /\ Len(returncodes) \in {Len(started) - 1, Len(started)}
          /\ \A k \in DOMAIN returncodes :
                returncodes[k] # 0 => Len(started) = k)
    /\ [][started' # started =>
            /\ Len(started') = Len(started) + 1
            /\ Len(returncodes) = Len(started)
            /\ \A k \in DOMAIN returncodes : returncodes[k] = 0]_vars

\* a step has failed after a step that succeeded, with steps left in the
\* list
StoppedAtFailedStep ==
    /\ rpc = "done"
    /\ Len(returncodes) = 2
    /\ returncodes[2] # 0
    /\ Len(functions) > 2

TypeOK ==
    /\ pc \in {"scan", "done", "error"}
    /\ err \in {"none", "AttributeError", "TypeError", "IndexError"}
    /\ pos \in 1..(Len(matches) + 1)
    /\ token_count \in 0..Len(tokens_elem)
    /\ parent \in 0..Len(elems)
    /\ pc = "done" <=> order # <<>>
====
